---- MODULE Spec2Model ----
(***************************************************************************)
(* Model of src/spriteGeneration/generate_scenario_sprites.py: the module  *)
(* initialisation (credentials, headers), the job                          *)
(* poller (poll_job_status), the two-stage pipeline                        *)
(* (generate_img2img_sprite_sheet) and the driver (__main__) that calls    *)
(* the pipeline once per character.  The remote service is the             *)
(* environment: every HTTP exchange draws its response from a small set.   *)
(***************************************************************************)
EXTENDS Integers, Sequences, FiniteSets

VARIABLES
    api_key,            \* SCENARIO_API_KEY, L12
    api_secret,         \* SCENARIO_API_SECRET, L13
    headers,            \* the module-level dict of L22-25
    reqs,               \* the driver's list of calls (prompt, output_filename)
    call,               \* index in reqs of the call in progress / next to start
    pc,                 \* position of the single thread of control
    stage,              \* which poll_job_status call is active: "gen" (L88) or "bg" (L111)
    job_id,             \* poll_job_status's parameter
    job_data,           \* status_response.json() in the latest poll_job_status frame (L35)
    generated_asset_id, \* L93
    final_image_url,    \* L116
    content,            \* image_response.content, L120
    files,              \* the file system: path -> [exists, data]
    exc,                \* the exception the handler caught, if any
    job_result,         \* what the first poll_job_status call returned (L88)
    remove_bg_job_result, \* what the second poll_job_status call returned (L111)
    retval,             \* what the last finished call of the pipeline returned
    stdout,             \* the lines the last step printed
    log,                \* I/O events since (and with) the last job submission, in order
    nsleeps,            \* time.sleep calls of the current poll_job_status call
    nloops,             \* non-terminal statuses the current poll_job_status call has seen
    last_resp,          \* the response to the last request sent, as the service gave it
    prev_log,           \* replay only: the log of the previous call
    attempted,          \* indices of reqs whose img2img POST was issued
    written,            \* output paths written by this process, in order
    returned,           \* per normally returned call: path, return value, file data
    replay,             \* TRUE: the backend is a deterministic mock (same script every call)
    script,             \* replay only: the responses the backend gave during call 1
    step,               \* number of responses consumed by the current call
    sent,               \* requests the current call has issued, by kind (status queries apart)
    handle,             \* the job id the service returned to the latest submission
    outstanding,        \* jobs submitted whose terminal status has not been observed
    unbounded           \* TRUE: the poll loop may go on forever (log, counters saturate)

vars == <<reqs, call, pc, stage, job_id, job_data, generated_asset_id, final_image_url,
          content, files, exc, job_result, remove_bg_job_result, retval, stdout, log,
          nsleeps, nloops, last_resp, prev_log, attempted, written, returned, replay,
          script, step, api_key, api_secret, headers, sent, handle, outstanding,
          unbounded>>

\* ------------------------------------------------------------------ bounds

\* Most time.sleep calls one poll_job_status call may make in the model.
MaxSleeps == 2

\* ------------------------------------------------------- program constants

\* time.sleep(5), L46
PollInterval == 5

None == "None"

\* The five calls of __main__ (L148-185): prompt (abbreviated) and output file.
Requests ==
    << [prompt |-> "male warrior",   output_filename |-> "male_warrior_scenario.png"],
       [prompt |-> "female archer",  output_filename |-> "female_archer_scenario.png"],
       [prompt |-> "goblin rogue",   output_filename |-> "goblin_rogue_scenario.png"],
       [prompt |-> "wizard",         output_filename |-> "wizard_scenario.png"],
       [prompt |-> "armored knight", output_filename |-> "armored_knight_scenario.png"] >>

Paths == {Requests[i].output_filename : i \in 1..Len(Requests)}

\* What os.getenv may give for a credential (L12-13): None when the variable
\* is unset, the empty string, or a value.
KeyValues    == {None, "", "KEY"}
SecretValues == {None, "", "SECRET"}

CredentialsMissing_unset_only(k, s) == k = None \/ s = None

\* not SCENARIO_API_KEY or not SCENARIO_API_SECRET (L15): None and "" are falsy.
CredentialsMissing(k, s) == k \in {None, ""} \/ s \in {None, ""}

\* base64.b64encode(f"{k}:{s}".encode()).decode() (L19-20): an injective
\* encoding of the string k:s.
b64encode(k, s) == <<"b64", k, ":", s>>

\* The headers dict of L22-25.
BasicAuth(k, s) ==
    [Authorization |-> <<"Basic">> \o b64encode(k, s), ContentType |-> "application/json"]

\* headers before L22 has run: the name is not bound.
NoHeaders == [Authorization |-> <<>>, ContentType |-> None]

\* ------------------------------------------------------------ environment

JobIds   == {"job1", "job2"}
AssetIds == {"A1", "A2"}
Urls     == {"U1", "U2"}
\* Bodies a download may return (byte strings).
Datas    == {<<80, 78, 71>>, <<>>}
\* What a file that existed before the process started holds.
OldData  == <<7>>

\* Status classes of an HTTP response as requests hands it back.  A 3xx is a
\* redirect requests did not follow (e.g. 304, or no Location header).
HttpCodes == {"2xx", "3xx", "4xx", "5xx"}

ExcNone == [cls |-> None, msg |-> ""]

\* Response to a POST (L70, L102).  net = "connerr": requests.post itself raises.
PostResponses ==
    { [net |-> "connerr", code |-> None, json |-> FALSE, hasJobId |-> FALSE, jobId |-> None] }
    \cup { [net |-> "ok", code |-> c, json |-> FALSE, hasJobId |-> FALSE, jobId |-> None]
             : c \in HttpCodes }
    \cup { [net |-> "ok", code |-> c, json |-> TRUE, hasJobId |-> FALSE, jobId |-> None]
             : c \in {"2xx", "3xx"} }
    \cup { [net |-> "ok", code |-> c, json |-> TRUE, hasJobId |-> TRUE, jobId |-> j]
             : c \in {"2xx", "3xx"}, j \in JobIds }

\* One output descriptor of a job's success payload.
\* A generation job's outputs carry assetIds, a background removal's a url;
\* either field may be missing.
Descriptors ==
    { [hasAssetIds |-> FALSE, assetIds |-> <<>>, url |-> u] : u \in Urls \cup {None} }
    \cup { [hasAssetIds |-> TRUE, assetIds |-> a, url |-> None]
             : a \in {<<>>, <<"A1">>, <<"A2", "A1">>} }

\* A second descriptor, to tell "the first output" from the others.
OtherDescriptor == [hasAssetIds |-> TRUE, assetIds |-> <<"A2">>, url |-> "U2"]

OutputLists ==
    {<<>>} \cup {<<d>> : d \in Descriptors}
    \cup {<<d, OtherDescriptor>> : d \in {e \in Descriptors : e.url = "U1" \/ e.assetIds = <<"A1">>}}

NoStatusBody ==
    [json |-> FALSE, status |-> None, progress |-> None, error |-> None,
     hasOutputs |-> FALSE, outputs |-> <<>>]

\* JSON bodies of GET /jobs/{id}.  None: the field is missing.
StatusBodies ==
    { [json |-> TRUE, status |-> s, progress |-> p, error |-> None,
       hasOutputs |-> FALSE, outputs |-> <<>>]
        : s \in {"in-progress", "canceled"}, p \in {None, "55"} }
    \cup { [json |-> TRUE, status |-> "failure", progress |-> None, error |-> e,
            hasOutputs |-> FALSE, outputs |-> <<>>]
        : e \in {"bad prompt", "quota exceeded", None} }
    \cup { [json |-> TRUE, status |-> "success", progress |-> None, error |-> None,
            hasOutputs |-> FALSE, outputs |-> <<>>] }
    \cup { [json |-> TRUE, status |-> "success", progress |-> None, error |-> None,
            hasOutputs |-> TRUE, outputs |-> o] : o \in OutputLists }

\* Response to a status query (L30).
StatusResponses ==
    { [net |-> "connerr", code |-> None, body |-> NoStatusBody] }
    \cup { [net |-> "ok", code |-> c, body |-> NoStatusBody] : c \in HttpCodes }
    \cup { [net |-> "ok", code |-> c, body |-> b] : c \in {"2xx", "3xx"}, b \in StatusBodies }

\* No request left the process.
NothingSent == [net |-> None, code |-> None, content |-> <<>>]

\* Response to the download GET (L120).
DownloadResponses ==
    { [net |-> "connerr", code |-> None, content |-> <<>>] }
    \cup { [net |-> "ok", code |-> c, content |-> d] : c \in HttpCodes, d \in Datas }

\* What the backend of a deterministic mock answers with: one status class
\* per outcome, no progress field, at most one output.
MockPostResponses == { r \in PostResponses : r.code \in {None, "2xx", "4xx"} }

MockStatusResponses ==
    { r \in StatusResponses :
         /\ r.code \in {None, "2xx", "4xx"}
         /\ r.body.progress = None
         /\ r.body.status # "canceled"
         /\ r.body.error # "quota exceeded"
         /\ Len(r.body.outputs) <= 1 }

MockDownloadResponses == { r \in DownloadResponses : r.code \in {None, "2xx", "4xx"} }

\* ------------------------------------------------------- library semantics

raise_for_status_5xx_only(code) == code = "5xx"

raise_for_status_never(code) == FALSE

\* Response.raise_for_status() (L34, L76, L107, L121): raises HTTPError for a
\* 4xx or 5xx status and for nothing else.
raise_for_status(code) == code \in {"4xx", "5xx"}

\* dict.get("outputs", []) (L89, L112): the default when the key is missing.
get_outputs(body) == IF body.hasOutputs THEN body.outputs ELSE <<>>

open_ab(f) == [exists |-> TRUE, data |-> f.data]

\* open(output_filename, "wb") (L122): creates or truncates.
open_wb(f) == [exists |-> TRUE, data |-> <<>>]

f_write_nothing(f, bytes) == f

\* f.write(image_response.content) (L123): writes at the file position.
f_write(f, bytes) == [f EXCEPT !.data = f.data \o bytes]

\* ------------------------------------------------------------ exceptions

ConnectionError(what) == [cls |-> "ConnectionError", msg |-> what]
HTTPError(code)       == [cls |-> "HTTPError", msg |-> code]
JSONDecodeError       == [cls |-> "JSONDecodeError", msg |-> "body is not JSON"]

\* raise Exception("Scenario.gg job failed.") (L43): the message is fixed;
\* job_data.get("error") is printed on L42 and is not part of the exception.
JobFailedException(body) == [cls |-> "Exception", msg |-> "Scenario.gg job failed."]

\* ---------------------------------------------------------- poll_job_status

\* The dict status_response.json() returns (L35).
JobData(body) ==
    [status |-> body.status, progress |-> body.progress, error |-> body.error,
     hasOutputs |-> body.hasOutputs, outputs |-> body.outputs]

NoJobData ==
    [status |-> None, progress |-> None, error |-> None, hasOutputs |-> FALSE,
     outputs |-> <<>>]

IsSuccess_or_in_progress(s) == s \in {"success", "in-progress"}

\* status == "success" (L38)
IsSuccess(s) == s = "success"

IsFailure_never(s) == FALSE

\* status == "failure" (L41)
IsFailure(s) == s = "failure"

InProgressPc_no_sleep == "query"

InProgressPc_no_wait == "submit_bg"

\* What the else branch (L44-46) does before the next iteration of the loop.
InProgressPc == "sleep"

\* job_data.get('progress', 0) (L45)
get_progress(body) == IF body.progress = None THEN "0" ELSE body.progress

poll_iteration_capped(r) ==
    IF r.net = "connerr" THEN
        [kind |-> "raise", exc |-> ConnectionError("GET job"), out |-> <<>>,
         job_data |-> job_data]
    ELSE IF raise_for_status(r.code) THEN
        [kind |-> "raise", exc |-> HTTPError(r.code), out |-> <<>>, job_data |-> job_data]
    ELSE IF ~r.body.json THEN
        [kind |-> "raise", exc |-> JSONDecodeError, out |-> <<>>, job_data |-> job_data]
    ELSE IF IsSuccess(r.body.status) THEN
        [kind |-> "return", exc |-> ExcNone, out |-> << <<"Job completed successfully.">> >>,
         job_data |-> JobData(r.body)]
    ELSE IF IsFailure(r.body.status) THEN
        [kind |-> "raise", exc |-> JobFailedException(r.body),
         out |-> << <<"Job failed:", r.body.error>> >>, job_data |-> JobData(r.body)]
    ELSE IF nloops >= MaxSleeps THEN
        [kind |-> "raise", exc |-> [cls |-> "TimeoutError", msg |-> "job did not finish"],
         out |-> <<>>, job_data |-> JobData(r.body)]
    ELSE
        [kind |-> "loop", exc |-> ExcNone,
         out |-> << <<"Job status:", r.body.status, "progress:", get_progress(r.body)>> >>,
         job_data |-> JobData(r.body)]

\* One iteration of the while loop (L29-46) on response r:
\* kind "return" (L40), "raise" (L30, L34, L35, L43) or "loop" (L46).
\* out: the lines it prints.
poll_iteration(r) ==
    IF r.net = "connerr" THEN
        [kind |-> "raise", exc |-> ConnectionError("GET job"), out |-> <<>>,
         job_data |-> job_data]
    ELSE IF raise_for_status(r.code) THEN
        [kind |-> "raise", exc |-> HTTPError(r.code), out |-> <<>>, job_data |-> job_data]
    ELSE IF ~r.body.json THEN
        [kind |-> "raise", exc |-> JSONDecodeError, out |-> <<>>, job_data |-> job_data]
    ELSE IF IsSuccess(r.body.status) THEN
        [kind |-> "return", exc |-> ExcNone, out |-> << <<"Job completed successfully.">> >>,
         job_data |-> JobData(r.body)]
    ELSE IF IsFailure(r.body.status) THEN
        [kind |-> "raise", exc |-> JobFailedException(r.body),
         out |-> << <<"Job failed:", r.body.error>> >>, job_data |-> JobData(r.body)]
    ELSE
        [kind |-> "loop", exc |-> ExcNone,
         out |-> << <<"Job status:", r.body.status, "progress:", get_progress(r.body)>> >>,
         job_data |-> JobData(r.body)]

\* ------------------------------------------- generate_img2img_sprite_sheet

HasJobId_unchecked(r) == TRUE

\* response_json["jobId"] (L78, L108): KeyError when the field is missing.
HasJobId(r) == r.hasJobId

\* L59-86: the img2img POST and the parsing of its response.
img2img_submit(r, prompt) ==
    LET started == <<"Generating sprite sheet for:", prompt>> IN
    IF r.net = "connerr" THEN
        [pc |-> "raised", exc |-> ConnectionError("POST img2img"), job_id |-> None,
         out |-> <<started>>]
    ELSE IF raise_for_status(r.code) THEN
        [pc |-> "raised", exc |-> HTTPError(r.code), job_id |-> None,
         out |-> <<started, <<"HTTP Error during img2img generation:", r.code>>,
                   <<"Response content:">> >>]
    ELSE IF ~r.json THEN
        [pc |-> "raised", exc |-> JSONDecodeError, job_id |-> None, out |-> <<started>>]
    ELSE IF ~HasJobId(r) THEN
        [pc |-> "raised",
         exc |-> [cls |-> "Exception", msg |-> "Failed to get jobId from img2img response."],
         job_id |-> None,
         out |-> <<started, <<"KeyError: 'jobId' not found in response.">> >>]
    ELSE
        [pc |-> "query", exc |-> ExcNone, job_id |-> r.jobId,
         out |-> <<started, <<"Generation job started. Job ID:", r.jobId>> >>]

remove_bg_submit_stale_id(r) ==
    IF r.net = "connerr" THEN
        [pc |-> "raised", exc |-> ConnectionError("POST remove-background"),
         job_id |-> job_id, out |-> <<>>]
    ELSE IF raise_for_status(r.code) THEN
        [pc |-> "raised", exc |-> HTTPError(r.code), job_id |-> job_id, out |-> <<>>]
    ELSE IF ~r.json THEN
        [pc |-> "raised", exc |-> JSONDecodeError, job_id |-> job_id, out |-> <<>>]
    ELSE IF ~HasJobId(r) THEN
        [pc |-> "raised", exc |-> [cls |-> "KeyError", msg |-> "jobId"],
         job_id |-> job_id, out |-> <<>>]
    ELSE
        [pc |-> "query", exc |-> ExcNone, job_id |-> job_id,
         out |-> << <<"Background removal job started. Job ID:", r.jobId>> >>]

\* L102-109: the remove-background POST; a missing jobId is a bare KeyError here.
remove_bg_submit(r) ==
    IF r.net = "connerr" THEN
        [pc |-> "raised", exc |-> ConnectionError("POST remove-background"),
         job_id |-> job_id, out |-> <<>>]
    ELSE IF raise_for_status(r.code) THEN
        [pc |-> "raised", exc |-> HTTPError(r.code), job_id |-> job_id, out |-> <<>>]
    ELSE IF ~r.json THEN
        [pc |-> "raised", exc |-> JSONDecodeError, job_id |-> job_id, out |-> <<>>]
    ELSE IF ~HasJobId(r) THEN
        [pc |-> "raised", exc |-> [cls |-> "KeyError", msg |-> "jobId"],
         job_id |-> job_id, out |-> <<>>]
    ELSE
        [pc |-> "query", exc |-> ExcNone, job_id |-> r.jobId,
         out |-> << <<"Background removal job started. Job ID:", r.jobId>> >>]

\* not outputs (L90, L113)
NoOutputs(outputs) == Len(outputs) = 0

after_generation_unchecked(body) ==
    LET outputs == get_outputs(body) IN
    IF Len(outputs) = 0 \/ Len(outputs[1].assetIds) = 0 THEN
        [pc |-> "submit_bg", exc |-> ExcNone, asset |-> None,
         out |-> << <<"Generated image asset ID:", None>>, <<"Removing background...">> >>]
    ELSE
        [pc |-> "submit_bg", exc |-> ExcNone, asset |-> outputs[1].assetIds[1],
         out |-> << <<"Generated image asset ID:", outputs[1].assetIds[1]>>,
                    <<"Removing background...">> >>]

after_generation_last_asset(body) ==
    LET outputs == get_outputs(body) IN
    IF NoOutputs(outputs) THEN
        [pc |-> "raised",
         exc |-> [cls |-> "Exception", msg |-> "No outputs found for generation job."],
         asset |-> None, out |-> <<>>]
    ELSE IF ~outputs[1].hasAssetIds THEN
        [pc |-> "raised",
         exc |-> [cls |-> "TypeError", msg |-> "'NoneType' object is not subscriptable"],
         asset |-> None, out |-> <<>>]
    ELSE IF Len(outputs[1].assetIds) = 0 THEN
        [pc |-> "raised", exc |-> [cls |-> "IndexError", msg |-> "list index out of range"],
         asset |-> None, out |-> <<>>]
    ELSE
        LET last == outputs[1].assetIds[Len(outputs[1].assetIds)] IN
        [pc |-> "submit_bg", exc |-> ExcNone, asset |-> last,
         out |-> << <<"Generated image asset ID:", last>>, <<"Removing background...">> >>]

\* L89-97: what follows the return of the first poll.
after_generation(body) ==
    LET outputs == get_outputs(body) IN
    IF NoOutputs(outputs) THEN
        [pc |-> "raised",
         exc |-> [cls |-> "Exception", msg |-> "No outputs found for generation job."],
         asset |-> None, out |-> <<>>]
    ELSE IF ~outputs[1].hasAssetIds THEN   \* None[0]
        [pc |-> "raised",
         exc |-> [cls |-> "TypeError", msg |-> "'NoneType' object is not subscriptable"],
         asset |-> None, out |-> <<>>]
    ELSE IF Len(outputs[1].assetIds) = 0 THEN   \* [][0]
        [pc |-> "raised", exc |-> [cls |-> "IndexError", msg |-> "list index out of range"],
         asset |-> None, out |-> <<>>]
    ELSE
        [pc |-> "submit_bg", exc |-> ExcNone, asset |-> outputs[1].assetIds[1],
         out |-> << <<"Generated image asset ID:", outputs[1].assetIds[1]>>,
                    <<"Removing background...">> >>]

\* L112-117: what follows the return of the second poll.
after_remove_bg(body) ==
    LET outputs == get_outputs(body) IN
    IF NoOutputs(outputs) THEN
        [pc |-> "raised",
         exc |-> [cls |-> "Exception", msg |-> "No outputs found for background removal job."],
         url |-> None, out |-> <<>>]
    ELSE
        [pc |-> "download", exc |-> ExcNone, url |-> outputs[1].url,
         out |-> << <<"Final image URL:", outputs[1].url>> >>]

download_unchecked(url, r) ==
    IF url = None THEN
        [pc |-> "raised", exc |-> [cls |-> "MissingSchema", msg |-> "Invalid URL 'None'"],
         sent |-> FALSE, content |-> <<>>]
    ELSE IF r.net = "connerr" THEN
        [pc |-> "raised", exc |-> ConnectionError("GET url"), sent |-> TRUE,
         content |-> <<>>]
    ELSE
        [pc |-> "open", exc |-> ExcNone, sent |-> TRUE, content |-> r.content]

\* L120-121: the download of url; requests.get(None) raises MissingSchema
\* before anything is sent (sent FALSE, and r is not looked at).
download(url, r) ==
    IF url = None THEN
        [pc |-> "raised", exc |-> [cls |-> "MissingSchema", msg |-> "Invalid URL 'None'"],
         sent |-> FALSE, content |-> <<>>]
    ELSE IF r.net = "connerr" THEN
        [pc |-> "raised", exc |-> ConnectionError("GET url"), sent |-> TRUE,
         content |-> <<>>]
    ELSE IF raise_for_status(r.code) THEN
        [pc |-> "raised", exc |-> HTTPError(r.code), sent |-> TRUE, content |-> <<>>]
    ELSE
        [pc |-> "open", exc |-> ExcNone, sent |-> TRUE, content |-> r.content]

\* The function has no return statement (L124 is its last line): it returns None.
ReturnValue(output_filename) == None

\* ------------------------------------------------------------------ state

Absent == [exists |-> FALSE, data |-> <<>>]

Event(ev, arg) == [ev |-> ev, arg |-> arg]

\* What the service answered, as received (before the code looks at it).
NoDescriptor == [hasAssetIds |-> FALSE, assetIds |-> <<>>, url |-> None]

NoResponse ==
    [kind |-> None, net |-> None, code |-> None, json |-> FALSE, hasJobId |-> FALSE,
     status |-> None, error |-> None, noutputs |-> 0, first |-> NoDescriptor,
     content |-> <<>>]

SeenPost(r) ==
    [kind |-> "post", net |-> r.net, code |-> r.code, json |-> r.json,
     hasJobId |-> r.hasJobId, status |-> None, error |-> None, noutputs |-> 0,
     first |-> NoDescriptor, content |-> <<>>]

SeenStatus(r) ==
    [kind |-> "status", net |-> r.net, code |-> r.code, json |-> r.body.json,
     hasJobId |-> FALSE, status |-> r.body.status, error |-> r.body.error,
     noutputs |-> IF r.body.hasOutputs THEN Len(r.body.outputs) ELSE 0,
     first |-> IF r.body.hasOutputs /\ Len(r.body.outputs) > 0 THEN r.body.outputs[1]
               ELSE NoDescriptor,
     content |-> <<>>]

SeenDownload(r) ==
    [kind |-> "download", net |-> r.net, code |-> r.code, json |-> FALSE,
     hasJobId |-> FALSE, status |-> None, error |-> None, noutputs |-> 0,
     first |-> NoDescriptor, content |-> r.content]

\* The loop of L29-46 keeps no count of its iterations.  For the loop that
\* may go on forever, log, step, nloops and nsleeps stop recording once they have
\* counted past MaxSleeps.
Saturated(n) == unbounded /\ n > MaxSleeps

\* The responses the backend may give now: anything of kind S; with a
\* deterministic mock, one of M during call 1 and, in the later calls, what
\* the mock answered at the same step of call 1.
Env(S, M) ==
    IF ~replay THEN S
    ELSE IF call = 1 THEN M
    ELSE IF step + 1 <= Len(script) THEN {script[step + 1]}
    ELSE {}

Consume(r) ==
    /\ step' = IF Saturated(nloops) THEN step ELSE step + 1
    /\ script' = IF replay /\ call = 1 THEN Append(script, r) ELSE script

\* No request of any kind issued yet.
NoneSent == [call |-> 0, img2img |-> 0, bg |-> 0, url |-> 0]

\* The service told the client that the job is over.
TerminalObserved(r) == r.net = "ok" /\ r.body.json /\ r.body.status \in {"success", "failure"}

InitCommon ==
    /\ api_key \in KeyValues
    /\ api_secret \in SecretValues
    /\ headers = NoHeaders
    /\ sent = NoneSent
    /\ handle = None
    /\ outstanding = 0
    /\ call = 1
    /\ pc = "init"
    /\ stage = "gen"
    /\ job_id = None
    /\ job_data = NoJobData
    /\ generated_asset_id = None
    /\ final_image_url = None
    /\ content = <<>>
    /\ exc = ExcNone
    /\ job_result = NoJobData
    /\ remove_bg_job_result = NoJobData
    /\ retval = "unset"
    /\ stdout = <<>>
    /\ log = <<>>
    /\ nsleeps = 0
    /\ nloops = 0
    /\ last_resp = NoResponse
    /\ prev_log = <<>>
    /\ attempted = {}
    /\ written = <<>>
    /\ returned = <<>>
    /\ script = <<>>
    /\ step = 0

\* The file system before the process starts: the output directory is empty,
\* or an earlier run of the script has left every output file in it.
InitialFiles ==
    { [p \in Paths |-> IF p \in S THEN [exists |-> TRUE, data |-> OldData] ELSE Absent]
        : S \in {{}, Paths} }

\* The process as __main__ runs it: five calls and an arbitrary backend.
Init ==
    /\ InitCommon
    /\ reqs = Requests
    /\ replay = FALSE
    /\ unbounded = FALSE
    /\ files \in InitialFiles

\* The same call made twice against a deterministic mock backend.
InitTwice ==
    /\ InitCommon
    /\ reqs = <<Requests[1], Requests[1]>>
    /\ replay = TRUE
    /\ unbounded = FALSE
    /\ files \in InitialFiles

\* One call against a service that may report a non-terminal status for ever.
InitLive ==
    /\ InitCommon
    /\ reqs = <<Requests[1]>>
    /\ replay = FALSE
    /\ unbounded = TRUE
    /\ files \in InitialFiles

\* --------------------------------------------------------------- actions

history == <<attempted, written, returned>>

\* What no statement after L25 assigns.
fixed == <<replay, unbounded, api_key, api_secret, headers>>

\* L12-25: the credentials are read; without both the module prints the error
\* and exit() ends the process, otherwise headers is built and __main__ runs.
ModuleInit ==
    /\ pc = "init"
    /\ IF CredentialsMissing(api_key, api_secret)
          THEN /\ pc' = "refused"
               /\ headers' = headers
               /\ stdout' = << <<"Error: SCENARIO_API_KEY or SCENARIO_API_SECRET not found in .env file.">> >>
          ELSE /\ pc' = "main"
               /\ headers' = BasicAuth(api_key, api_secret)
               /\ stdout' = <<>>
    /\ UNCHANGED <<reqs, call, stage, job_id, job_data, generated_asset_id,
                   final_image_url, content, files, exc, job_result,
                   remove_bg_job_result, retval, log, nsleeps, nloops, last_resp,
                   prev_log, history, replay, unbounded, api_key, api_secret, script,
                   step, sent, handle, outstanding>>

\* The locals of generate_img2img_sprite_sheet and poll_job_status are gone
\* once the call has returned or its exception has reached the handler.
FrameGone ==
    /\ stage' = "gen"
    /\ job_id' = None
    /\ job_data' = NoJobData
    /\ generated_asset_id' = None
    /\ final_image_url' = None
    /\ content' = <<>>
    /\ job_result' = NoJobData
    /\ remove_bg_job_result' = NoJobData
    /\ nsleeps' = 0
    /\ nloops' = 0

HandlerPc_continue == "main"

\* Where control goes after the handler: the try block (L146-185) holds all
\* five calls, so the calls after the failing one are skipped.
HandlerPc == "exit"

Raise_and_retry(e, out) ==
    /\ pc' = "main"
    /\ call' = call
    /\ exc' = e
    /\ stdout' = Append(out, <<"An error occurred during sprite generation:", e.msg>>)
    /\ FrameGone
    /\ UNCHANGED <<reqs, files, retval, prev_log, written, returned, fixed>>

\* An exception leaves generate_img2img_sprite_sheet and reaches
\* except Exception as e (L187-188), which prints it; out: the lines printed
\* before it was raised.
Raise(e, out) ==
    /\ pc' = HandlerPc
    /\ call' = IF HandlerPc = "main" THEN call + 1 ELSE call
    /\ exc' = e
    /\ stdout' = Append(out, <<"An error occurred during sprite generation:", e.msg>>)
    /\ FrameGone
    /\ UNCHANGED <<reqs, files, retval, prev_log, written, returned, fixed>>

\* L148-185 (one call) and L59-86: the call starts and posts the img2img job.
SubmitImg2Img ==
    /\ pc = "main"
    /\ call <= Len(reqs)
    /\ log' = <<Event("POST img2img", reqs[call].prompt)>>
    /\ attempted' = attempted \cup {call}
    /\ sent' = IF sent.call = call THEN [sent EXCEPT !.img2img = @ + 1]
               ELSE [call |-> call, img2img |-> 1, bg |-> 0, url |-> 0]
    /\ \E r \in Env(PostResponses, MockPostResponses) :
          LET o == img2img_submit(r, reqs[call].prompt) IN
          /\ Consume(r)
          /\ last_resp' = SeenPost(r)
          /\ handle' = r.jobId
          /\ outstanding' = IF r.jobId = None THEN outstanding ELSE outstanding + 1
          /\ IF o.pc = "raised" THEN Raise(o.exc, o.out)
             ELSE
                /\ pc' = o.pc
                /\ exc' = o.exc
                /\ job_id' = o.job_id
                /\ stdout' = o.out
                /\ prev_log' = IF replay THEN log ELSE prev_log
                /\ UNCHANGED <<reqs, call, stage, job_data, generated_asset_id,
                               final_image_url, content, files, job_result,
                               remove_bg_job_result, retval, nsleeps, nloops, written,
                               returned, fixed>>

\* L30-46 (one iteration of the loop) and, when poll_job_status returns,
\* L89-97 or L112-117 of the caller.
PollQuery ==
    /\ pc = "query"
    /\ log' = IF Saturated(nloops) THEN log ELSE Append(log, Event("GET job", job_id))
    /\ UNCHANGED <<attempted, sent, handle>>
    /\ \E r \in Env(StatusResponses, MockStatusResponses) :
          LET p == poll_iteration(r)
              a == after_generation(p.job_data)
              b == after_remove_bg(p.job_data)
          IN
          /\ p.kind = "loop" => unbounded \/ nloops < MaxSleeps
          /\ Consume(r)
          /\ last_resp' = SeenStatus(r)
          /\ outstanding' = IF TerminalObserved(r) /\ outstanding > 0 THEN outstanding - 1
                            ELSE outstanding
          /\ IF p.kind = "raise" THEN Raise(p.exc, p.out)
             ELSE IF p.kind = "return" /\ stage = "gen" /\ a.pc = "raised" THEN
                Raise(a.exc, p.out \o a.out)
             ELSE IF p.kind = "return" /\ stage = "bg" /\ b.pc = "raised" THEN
                Raise(b.exc, p.out \o b.out)
             ELSE
                /\ job_data' = p.job_data
                /\ exc' = ExcNone
                /\ IF p.kind = "loop" THEN
                      /\ pc' = InProgressPc
                      /\ nloops' = IF Saturated(nloops) THEN nloops ELSE nloops + 1
                      /\ stdout' = p.out
                      /\ UNCHANGED <<job_result, remove_bg_job_result,
                                     generated_asset_id, final_image_url>>
                   ELSE IF stage = "gen" THEN
                      /\ job_result' = p.job_data
                      /\ pc' = a.pc
                      /\ generated_asset_id' = a.asset
                      /\ stdout' = p.out \o a.out
                      /\ UNCHANGED <<remove_bg_job_result, final_image_url, nloops>>
                   ELSE
                      /\ remove_bg_job_result' = p.job_data
                      /\ pc' = b.pc
                      /\ final_image_url' = b.url
                      /\ stdout' = p.out \o b.out
                      /\ UNCHANGED <<job_result, generated_asset_id, nloops>>
                /\ UNCHANGED <<reqs, call, stage, job_id, content, files, retval,
                               nsleeps, prev_log, written, returned, fixed>>

\* time.sleep(5), L46
PollSleep ==
    /\ pc = "sleep"
    /\ pc' = "query"
    /\ nsleeps' = IF Saturated(nsleeps) THEN nsleeps ELSE nsleeps + 1
    /\ log' = IF Saturated(nsleeps) THEN log ELSE Append(log, Event("sleep", PollInterval))
    /\ stdout' = <<>>
    /\ UNCHANGED <<reqs, call, stage, job_id, job_data, generated_asset_id,
                   final_image_url, content, files, exc, job_result,
                   remove_bg_job_result, retval, nloops, last_resp, prev_log,
                   history, fixed, script, step, sent, handle, outstanding>>

\* L98-109: the remove-background POST, then the second poll starts (L111).
SubmitRemoveBg ==
    /\ pc = "submit_bg"
    /\ log' = <<Event("POST remove-background", generated_asset_id)>>
    /\ UNCHANGED attempted
    /\ sent' = [sent EXCEPT !.bg = @ + 1]
    /\ \E r \in Env(PostResponses, MockPostResponses) :
          LET o == remove_bg_submit(r) IN
          /\ Consume(r)
          /\ last_resp' = SeenPost(r)
          /\ handle' = r.jobId
          /\ outstanding' = IF r.jobId = None THEN outstanding ELSE outstanding + 1
          /\ IF o.pc = "raised" THEN Raise(o.exc, o.out)
             ELSE
                /\ pc' = o.pc
                /\ exc' = o.exc
                /\ job_id' = o.job_id
                /\ stdout' = o.out
                /\ stage' = "bg"
                /\ nsleeps' = 0
                /\ nloops' = 0
                /\ job_data' = NoJobData
                /\ UNCHANGED <<reqs, call, generated_asset_id, final_image_url,
                               content, files, job_result, remove_bg_job_result,
                               retval, prev_log, written, returned, fixed>>

\* L120-121: the download.
Download ==
    /\ pc = "download"
    /\ UNCHANGED <<attempted, handle, outstanding>>
    /\ \E r \in IF final_image_url = None THEN {NothingSent}
                ELSE Env(DownloadResponses, MockDownloadResponses) :
          LET d == download(final_image_url, r) IN
          /\ IF d.sent
                THEN /\ Consume(r)
                     /\ last_resp' = SeenDownload(r)
                     /\ log' = Append(log, Event("GET url", final_image_url))
                     /\ sent' = [sent EXCEPT !.url = @ + 1]
                ELSE UNCHANGED <<script, step, last_resp, log, sent>>
          /\ IF d.pc = "raised" THEN Raise(d.exc, <<>>)
             ELSE
                /\ pc' = d.pc
                /\ exc' = d.exc
                /\ content' = d.content
                /\ stdout' = <<>>
                /\ UNCHANGED <<reqs, call, stage, job_id, job_data, generated_asset_id,
                               final_image_url, files, job_result,
                               remove_bg_job_result, retval, nsleeps, nloops,
                               prev_log, written, returned, fixed>>

\* open(output_filename, "wb"), L122
OpenFile ==
    /\ pc = "open"
    /\ pc' = "write"
    /\ files' = [files EXCEPT ![reqs[call].output_filename] = open_wb(@)]
    /\ log' = Append(log, Event("open", reqs[call].output_filename))
    /\ stdout' = <<>>
    /\ UNCHANGED <<reqs, call, stage, job_id, job_data, generated_asset_id,
                   final_image_url, content, exc, job_result, remove_bg_job_result,
                   retval, nsleeps, nloops, last_resp, prev_log, history,
                   fixed, script, step, sent, handle, outstanding>>

\* L123-124: the write, the close, the last print, and the return to __main__.
WriteFile ==
    /\ pc = "write"
    /\ LET path == reqs[call].output_filename
           f == f_write(files[path], content) IN
       /\ files' = [files EXCEPT ![path] = f]
       /\ log' = Append(log, Event("write", path))
       /\ written' = Append(written, path)
       /\ retval' = ReturnValue(path)
       /\ returned' = Append(returned, [call |-> call, path |-> path,
                                        retval |-> ReturnValue(path), data |-> f.data])
       /\ stdout' = << <<"Sprite sheet saved to", path>> >>
    /\ pc' = "main"
    /\ call' = call + 1
    /\ FrameGone
    /\ step' = 0
    /\ UNCHANGED <<reqs, exc, last_resp, prev_log, attempted, fixed, script, sent,
                   handle, outstanding>>

Next ==
    \/ ModuleInit
    \/ SubmitImg2Img
    \/ PollQuery
    \/ PollSleep
    \/ SubmitRemoveBg
    \/ Download
    \/ OpenFile
    \/ WriteFile

Spec == Init /\ [][Next]_vars

SpecTwice == InitTwice /\ [][Next]_vars

\* The single thread of control takes its next step whenever it has one:
\* every request is answered and every time.sleep returns.
SpecLive == InitLive /\ [][Next]_vars /\ WF_vars(Next)

\* ----------------------------------------------------------------- claims

LastEv == IF log = <<>> THEN None ELSE log[Len(log)].ev

Count(ev) == Cardinality({i \in DOMAIN log : log[i].ev = ev})

IsPollEvent(e) == e.ev \in {"GET job", "sleep"}

\* The process has run to its end: the handler ran, or the last call returned.
Finished == pc = "exit" \/ (pc = "main" /\ call > Len(reqs))

\* The last step ran L39-40: it printed the success line and poll_job_status returned.
PollJustReturned == stdout # <<>> /\ stdout[1] = <<"Job completed successfully.">>

\* The last status query was answered with a body the code parsed.
StatusParsed ==
    /\ last_resp.kind = "status"
    /\ last_resp.net = "ok"
    /\ last_resp.code \in {"2xx", "3xx"}
    /\ last_resp.json

\* C1: poll_job_status returns a payload only when the status it has just
\* observed is "success": never on "in-progress", "canceled" or any other
\* value, and control passes L88 / L111 only with such a payload.
C1_ReturnsOnlyOnSuccess ==
    /\ PollJustReturned => StatusParsed /\ last_resp.status = "success"
    /\ job_result # NoJobData => job_result.status = "success"
    /\ remove_bg_job_result # NoJobData => remove_bg_job_result.status = "success"
    /\ pc = "submit_bg" => job_result # NoJobData /\ job_data = job_result
    /\ pc \in {"download", "open", "write"} =>
          remove_bg_job_result # NoJobData /\ job_data = remove_bg_job_result

C1_Witness ==
    /\ pc = "submit_bg"
    /\ nloops = MaxSleeps
    /\ PollJustReturned
    /\ job_result.status = "success"

\* C2: when poll_job_status has returned after k non-terminal statuses, it has
\* made exactly k+1 status queries and k sleeps, alternating query, sleep,
\* ..., query right after the submission, it returned the success payload,
\* and no query or sleep follows the return.
C2_QueriesAndWaits ==
    pc \in {"submit_bg", "download", "open", "write"} =>
        LET polls == SelectSeq(log, IsPollEvent) IN
        /\ Len(polls) = 2 * nloops + 1
        /\ nsleeps = nloops
        /\ \A i \in DOMAIN polls :
              polls[i].ev = IF i % 2 = 1 THEN "GET job" ELSE "sleep"
        /\ SubSeq(log, 2, 2 * nloops + 2) = polls
        /\ (IF stage = "gen" THEN job_result ELSE remove_bg_job_result).status = "success"

C2_Witness ==
    /\ pc = "download"
    /\ nloops = 2
    /\ Count("GET job") = 3
    /\ Count("sleep") = 2

\* The last status query observed "failure".
FailureSeen == StatusParsed /\ last_resp.status = "failure"

\* C3 as stated: the exception raised on "failure" carries the error message
\* the service reported, and no further query follows.
C3_Original ==
    FailureSeen /\ last_resp.error # None =>
        /\ pc = "exit"
        /\ exc.msg = last_resp.error
        /\ LastEv = "GET job"

\* C3 as amended: on "failure" poll_job_status prints the service-reported
\* error and raises Exception with the fixed message "Scenario.gg job
\* failed."; the call ends there, with no further query.
C3_FailureRaisesFixedMessage ==
    FailureSeen =>
        /\ pc = "exit"
        /\ exc = [cls |-> "Exception", msg |-> "Scenario.gg job failed."]
        /\ stdout[1] = <<"Job failed:", last_resp.error>>
        /\ LastEv = "GET job"

C3_Witness ==
    /\ FailureSeen
    /\ last_resp.error = "bad prompt"
    /\ pc = "exit"
    /\ Count("sleep") = 1

\* C4: a 2xx response to the img2img POST whose JSON has no jobId makes the
\* call fail with the missing-field error, without any status query.
C4_NoJobIdNoPoll ==
    (/\ last_resp.kind = "post"
     /\ log = <<Event("POST img2img", reqs[call].prompt)>>
     /\ last_resp.net = "ok"
     /\ last_resp.code = "2xx"
     /\ last_resp.json
     /\ ~last_resp.hasJobId) =>
        /\ pc = "exit"
        /\ exc = [cls |-> "Exception", msg |-> "Failed to get jobId from img2img response."]
        /\ Count("GET job") = 0

C4_Witness ==
    /\ last_resp.kind = "post"
    /\ last_resp.code = "2xx"
    /\ last_resp.json
    /\ ~last_resp.hasJobId
    /\ pc = "exit"
    /\ call = 2
    /\ log = <<Event("POST img2img", reqs[2].prompt)>>

\* C5: when the generation job succeeds with an empty or missing outputs list,
\* the call fails with the no-outputs error and no remove-background request
\* is submitted.
C5_NoOutputsStops ==
    (/\ StatusParsed
     /\ last_resp.status = "success"
     /\ last_resp.noutputs = 0
     /\ log[1].ev = "POST img2img") =>
        /\ pc = "exit"
        /\ exc = [cls |-> "Exception", msg |-> "No outputs found for generation job."]
        /\ Count("POST remove-background") = 0
        /\ LastEv = "GET job"

C5_Witness ==
    /\ StatusParsed
    /\ last_resp.status = "success"
    /\ last_resp.noutputs = 0
    /\ log[1].ev = "POST img2img"
    /\ pc = "exit"

\* The download was answered and raise_for_status (L121) let it pass.
DownloadPassed ==
    /\ last_resp.kind = "download"
    /\ last_resp.net = "ok"
    /\ last_resp.code \notin {"4xx", "5xx"}

\* The call before `call` has just returned to __main__.
JustReturned == pc = "main" /\ returned # <<>> /\ LastEv = "write"

LastReturned == returned[Len(returned)]

\* C6 as stated: after a successful run the output path holds exactly the
\* bytes the download returned, and the call returns the written path.
C6_Original ==
    JustReturned =>
        /\ files[LastReturned.path].data = last_resp.content
        /\ LastReturned.retval = LastReturned.path

\* C6 as amended: a 2xx download is followed by the open and the write; after
\* the run the output path exists and holds exactly the bytes the download
\* returned, whatever it held before, and the call returns None.
C6_WritesExactlyDownloadedBytes ==
    /\ (last_resp.kind = "download" /\ last_resp.net = "ok" /\ last_resp.code = "2xx")
          => pc \in {"open", "write", "main"}
    /\ pc = "write" => content = last_resp.content
    /\ JustReturned =>
          /\ LastReturned.call = call - 1
          /\ LastReturned.path = reqs[call - 1].output_filename
          /\ files[LastReturned.path] = [exists |-> TRUE, data |-> last_resp.content]
          /\ LastReturned.data = last_resp.content
          /\ LastReturned.retval = None
          /\ retval = None

C6_Witness ==
    /\ JustReturned
    /\ call = 2
    /\ files[reqs[2].output_filename] = [exists |-> TRUE, data |-> OldData]
    /\ files[reqs[1].output_filename].data = <<80, 78, 71>>
    /\ last_resp.code = "2xx"

\* C7 as stated: a failure of one request does not keep the later requests
\* from being attempted: when the process ends, every request of the list
\* has had its img2img POST issued.
C7_EveryRequestAttempted == Finished => attempted = 1..Len(reqs)

\* The output file of call i is as it was before the process started.
Untouched(i) ==
    \E f \in InitialFiles : files[reqs[i].output_filename] = f[reqs[i].output_filename]

\* C8 as stated: a request that fails does not write its output file; the
\* file is written only when both jobs succeeded and the download returned
\* a 2xx response.
C8_Original ==
    /\ pc = "exit" => Untouched(call)
    /\ pc = "write" =>
          /\ job_result.status = "success"
          /\ remove_bg_job_result.status = "success"
          /\ last_resp.kind = "download"
          /\ last_resp.net = "ok"
          /\ last_resp.code = "2xx"

\* C8 as amended: a request that fails does not write its output file; the
\* file is opened and written only when both jobs succeeded and the download
\* was answered with a status raise_for_status accepts (anything but 4xx or
\* 5xx, so also an unfollowed 3xx).
C8_WritesOnlyAfterSuccess ==
    /\ pc = "exit" =>
          /\ Untouched(call)
          /\ Count("open") = 0
          /\ Count("write") = 0
    /\ pc \in {"open", "write"} =>
          /\ job_result.status = "success"
          /\ remove_bg_job_result.status = "success"
          /\ DownloadPassed
    /\ Len(written) = Len(returned)
    /\ \A i \in 1..call : i \notin {returned[k].call : k \in DOMAIN returned}
          => pc = "write" \/ i > Len(reqs) \/ Untouched(i)

C8_Witness ==
    /\ pc = "exit"
    /\ last_resp.kind = "download"
    /\ last_resp.code = "4xx"
    /\ call = 2
    /\ files[reqs[2].output_filename] = [exists |-> TRUE, data |-> OldData]
    /\ Len(written) = 1

\* C9: the same request run twice against a deterministic backend: the
\* second run issues the same requests and leaves the output file with the
\* same bytes as the first.
C9_SecondRunSameBytes ==
    (replay /\ Len(returned) = 2) =>
        /\ returned[1].path = returned[2].path
        /\ returned[2].data = returned[1].data
        /\ files[returned[2].path].data = returned[1].data
        /\ log = prev_log
        /\ script[Len(script)].content = returned[1].data

C9_Witness ==
    /\ replay
    /\ Len(returned) = 2
    /\ returned[2].data = <<80, 78, 71>>
    /\ Count("sleep") = 1
    /\ files[returned[2].path].data = <<80, 78, 71>>

\* The last status query failed at transport level, or was answered 4xx/5xx.
StatusQueryFailed ==
    /\ last_resp.kind = "status"
    /\ last_resp.net = "connerr" \/ last_resp.code \in {"4xx", "5xx"}

\* C10 as stated: a status query that fails at transport level or is
\* answered with a non-2xx status makes poll fail at once: the call ends, and
\* no sleep and no query follows.
C10_Original ==
    (last_resp.kind = "status" /\ (last_resp.net = "connerr" \/ last_resp.code # "2xx")) =>
        /\ pc = "exit"
        /\ LastEv = "GET job"

\* C10 as amended: a status query that fails at transport level or is
\* answered 4xx or 5xx makes poll fail at once with that transport error
\* (requests' ConnectionError or HTTPError): no sleep and no query follows.
C10_TransportErrorAborts ==
    StatusQueryFailed =>
        /\ pc = "exit"
        /\ exc.cls = (IF last_resp.net = "connerr" THEN "ConnectionError" ELSE "HTTPError")
        /\ LastEv = "GET job"

C10_Witness ==
    /\ StatusQueryFailed
    /\ last_resp.code = "4xx"
    /\ pc = "exit"
    /\ Count("sleep") = 2
    /\ log[1].ev = "POST remove-background"

\* Nothing has left the process and no file has been touched.
NothingDone ==
    /\ log = <<>>
    /\ attempted = {}
    /\ sent = NoneSent
    /\ last_resp = NoResponse
    /\ outstanding = 0
    /\ written = <<>>
    /\ \A i \in DOMAIN reqs : Untouched(i)

\* C11: when the API key or the API secret is unset or empty, the process
\* refuses to start: it ends at L17 without having sent any request or
\* written any file, and without having built the authorization header.
C11_RefusesWithoutCredentials ==
    (api_key \in {None, ""} \/ api_secret \in {None, ""}) =>
        /\ pc \in {"init", "refused"}
        /\ NothingDone
        /\ headers = NoHeaders

C11_Witness ==
    /\ pc = "refused"
    /\ api_key = ""
    /\ api_secret = "SECRET"
    /\ stdout # <<>>

IsPost(e) == e.ev \in {"POST img2img", "POST remove-background"}

\* The events since the last submission come in the order of the pipeline:
\* the submission, then queries alternating with sleeps, then (for the
\* background removal only) the download, the open and the write.
LogInOrder ==
    /\ log # <<>> => IsPost(log[1])
    /\ \A i \in 2..Len(log) :
          /\ ~IsPost(log[i])
          /\ log[i].ev = "GET job" => IsPost(log[i-1]) \/ log[i-1].ev = "sleep"
          /\ log[i].ev = "sleep" => log[i-1].ev = "GET job"
          /\ log[i].ev = "GET url" =>
                log[i-1].ev = "GET job" /\ log[1].ev = "POST remove-background"
          /\ log[i].ev = "open" => log[i-1].ev = "GET url"
          /\ log[i].ev = "write" => log[i-1].ev = "open"

\* What holds in every state of a pipeline run.
C12_State ==
    /\ LogInOrder
    /\ stage = "bg" =>
          /\ job_result.status = "success"
          /\ log[1] = Event("POST remove-background", job_result.outputs[1].assetIds[1])
    /\ pc = "download" =>
          /\ LastEv = "GET job"
          /\ remove_bg_job_result.status = "success"
          /\ final_image_url = remove_bg_job_result.outputs[1].url
    /\ pc = "open" => log[Len(log)] = Event("GET url", remove_bg_job_result.outputs[1].url)
    /\ pc = "write" =>
          /\ log[Len(log) - 1] = Event("GET url", remove_bg_job_result.outputs[1].url)
          /\ LastEv = "open"

\* What holds of every step that submits job B or downloads: the step before
\* it observed the success of the job, and the request carries the first
\* asset identifier (the url) of the first output of that success payload.
C12_Step ==
    /\ (log' # <<>> /\ log'[1].ev = "POST remove-background" /\ log'[1] # log[1]) =>
          /\ pc = "submit_bg"
          /\ log[1].ev = "POST img2img"
          /\ LastEv = "GET job"
          /\ StatusParsed /\ last_resp.status = "success"
          /\ log'[1].arg = last_resp.first.assetIds[1]
    /\ (LastEv' = "GET url" /\ LastEv # "GET url") =>
          /\ pc = "download"
          /\ log[1].ev = "POST remove-background"
          /\ LastEv = "GET job"
          /\ StatusParsed /\ last_resp.status = "success"
          /\ log'[Len(log')].arg = last_resp.first.url
    /\ (LastEv' = "open" /\ LastEv # "open") => LastEv = "GET url"
    /\ (LastEv' = "write" /\ LastEv # "write") => LastEv = "open"

\* C12: within one pipeline run the events occur in the order submit A,
\* status queries of A until success, submit B, status queries of B until
\* success, GET of the final url, file write; B is submitted only after the
\* success of A was observed, B's request carries the first asset identifier
\* of the first output of A's success payload, and the download targets the
\* url of the first output of B's success payload.
C12_EventOrder == []C12_State /\ [][C12_Step]_vars

C12_Witness ==
    /\ pc = "write"
    /\ log[1] = Event("POST remove-background", "A2")
    /\ job_result.outputs = <<[hasAssetIds |-> TRUE, assetIds |-> <<"A2", "A1">>, url |-> None]>>
    /\ Len(remove_bg_job_result.outputs) = 2
    /\ remove_bg_job_result.outputs[1].url = "U1"
    /\ log[Len(log) - 1] = Event("GET url", "U1")

\* The generation job was reported successful with a non-empty outputs list
\* whose first output has no asset identifiers (assetIds missing or empty).
NoAssetIdsSeen ==
    /\ StatusParsed
    /\ last_resp.status = "success"
    /\ last_resp.noutputs > 0
    /\ Len(last_resp.first.assetIds) = 0
    /\ log[1].ev = "POST img2img"

\* The error the code raises for an empty outputs list of the generation job.
NoOutputsError == [cls |-> "Exception", msg |-> "No outputs found for generation job."]

\* C13 as stated: when the first output of the generation job's success
\* payload has no asset identifiers, the call fails with the same kind of
\* error as for an empty outputs list, and no remove-background request is
\* submitted.
C13_SameErrorKindAsNoOutputs ==
    NoAssetIdsSeen =>
        /\ pc = "exit"
        /\ exc.cls = NoOutputsError.cls
        /\ Count("POST remove-background") = 0

\* The background removal was reported successful with a non-empty outputs
\* list whose first output has no url.
NoUrlSeen ==
    /\ StatusParsed
    /\ last_resp.status = "success"
    /\ last_resp.noutputs > 0
    /\ last_resp.first.url = None
    /\ log[1].ev = "POST remove-background"

\* C14 as stated: when the first output of the background removal's success
\* payload has no url, the call has failed with the missing-field error (the
\* kind raised for missing outputs) once control has left L116-117, the
\* download was never attempted, no GET of a final url was issued and no file
\* was written.
C14_NoUrlIsProtocolError ==
    (NoUrlSeen /\ pc # "download") =>
        /\ pc = "exit"
        /\ exc.cls = NoOutputsError.cls
        /\ Count("GET url") = 0
        /\ Count("write") = 0

\* Control is inside poll_job_status.
InPoll == pc \in {"query", "sleep"}

\* The last status query was answered with a status that is neither
\* "success" nor "failure".
NonTerminalSeen == StatusParsed /\ last_resp.status \notin {"success", "failure"}

\* C15: poll_job_status has no attempt cap and no timeout.  However many
\* non-terminal statuses it has seen, one more keeps it in the loop; every
\* sleep is followed by a query and every query by a sleep (on a
\* non-terminal status) or by the end of the poll; so a service that from
\* some point on reports no non-terminal status makes poll return or raise,
\* and one that reports them for ever is queried for ever.
C15_PollsUntilTerminal ==
    /\ [](NonTerminalSeen => InPoll)
    /\ (pc = "sleep") ~> (pc = "query")
    /\ (pc = "query") ~> (pc = "sleep" \/ ~InPoll)
    /\ (<>[](pc # "sleep")) => <>[]~InPoll

C15_Witness ==
    /\ unbounded
    /\ pc = "sleep"
    /\ stage = "bg"
    /\ nloops > MaxSleeps
    /\ nsleeps > MaxSleeps
    /\ NonTerminalSeen

\* In every state: the current call has issued each kind of request at most
\* once, and an error has ended the run.
C16_State ==
    /\ sent.img2img <= 1
    /\ sent.bg <= 1
    /\ sent.url <= 1
    /\ Count("POST img2img") + Count("POST remove-background") <= 1
    /\ Count("GET url") <= 1
    /\ exc # ExcNone => pc = "exit" /\ sent.call = call

\* In every step: once an error was raised, nothing more is sent.
C16_Step ==
    exc # ExcNone => log' = log /\ sent' = sent /\ last_resp' = last_resp /\ step' = step

\* C16: no step is retried: one pipeline run issues at most one img2img
\* submission, one remove-background submission and one download GET, and
\* after the first error of the run no further submission, status query or
\* download is issued.
C16_NoRetry == []C16_State /\ [][C16_Step]_vars

C16_Witness ==
    /\ pc = "exit"
    /\ exc = HTTPError("5xx")
    /\ sent = [call |-> 2, img2img |-> 1, bg |-> 1, url |-> 1]
    /\ last_resp.kind = "download"

\* The last status query was answered with a terminal status.
TerminalSeen == StatusParsed /\ last_resp.status \in {"success", "failure"}

\* In every state: poll is over once a terminal status was observed; while it
\* runs, it queries the job the latest submission of this run created, and so
\* did every query since that submission; between two runs no job
\* identifier, asset identifier or url of the finished run is left.
C17_State ==
    /\ TerminalSeen => ~InPoll
    /\ InPoll => handle # None /\ job_id = handle
    /\ \A i \in DOMAIN log : log[i].ev = "GET job" => log[i].arg = handle
    /\ pc \in {"main", "exit"} =>
          /\ job_id = None
          /\ generated_asset_id = None
          /\ final_image_url = None
          /\ job_result = NoJobData
          /\ remove_bg_job_result = NoJobData

\* In every step: a status query is never sent when the last answer for the
\* job was a terminal status, and it goes to the job of the latest submission.
C17_Step ==
    (log' # log /\ LastEv' = "GET job") =>
        /\ ~TerminalSeen
        /\ last_resp.kind = "post" \/ NonTerminalSeen
        /\ log'[Len(log')].arg = handle
        /\ handle' = handle

\* C17: a job identifier is never queried again once a terminal status has
\* been observed for it; every status query targets the job identifier the
\* most recent submission of the current run returned; no job identifier or
\* asset of one run is used by another run.
C17_JobIdHygiene == []C17_State /\ [][C17_Step]_vars

C17_Witness ==
    /\ InPoll
    /\ call = 2
    /\ stage = "bg"
    /\ handle = "job2"
    /\ job_id = "job2"
    /\ Count("GET job") = 2
    /\ log[2] = Event("GET job", "job2")

\* The calls that returned after writing their file.
ReturnedCalls == {returned[k].call : k \in DOMAIN returned}

\* In every state: at most one job is submitted and not yet observed
\* terminal; every call before the current one has finished; the requests
\* use the header built at start-up from the two credentials.
C18_State ==
    /\ outstanding <= 1
    /\ attempted \subseteq 1..call
    /\ \A i \in attempted : i < call => i \in ReturnedCalls
    /\ pc \notin {"init", "refused"} => headers = BasicAuth(api_key, api_secret)

\* In every step: a call issues its first request only when the call before
\* it has finished and no job is outstanding; the header is never assigned
\* after start-up.
C18_Step ==
    /\ attempted' # attempted =>
          /\ pc = "main"
          /\ outstanding = 0
          /\ attempted' = attempted \cup {call}
          /\ ReturnedCalls = 1..(call - 1)
          /\ call > 1 => LastEv = "write"
    /\ pc # "init" => headers' = headers
    /\ api_key' = api_key /\ api_secret' = api_secret

\* C18: sprite requests are processed strictly one at a time: the first
\* request of request i+1 is issued only after request i has finished, at
\* every moment at most one remote job is submitted and not yet observed
\* terminal, and the authorization header never changes during the process.
C18_OneAtATime == []C18_State /\ [][C18_Step]_vars

C18_Witness ==
    /\ pc = "query"
    /\ stage = "gen"
    /\ call = 3
    /\ outstanding = 1
    /\ Len(returned) = 2
    /\ headers = BasicAuth("KEY", "SECRET")

\* The output file of the call that issued the latest request.
CurrentFile == files[reqs[sent.call].output_filename]

\* C19 as stated: when a run fails at any step up to and including a non-2xx
\* download response, the file at the output path is as it was: the path is
\* opened for writing only after a 2xx download response.
C19_Original ==
    /\ pc = "exit" => Untouched(call)
    /\ (last_resp.kind = "download" /\ last_resp.code # "2xx") =>
          /\ Count("open") = 0
          /\ \E f \in InitialFiles : CurrentFile = f[reqs[sent.call].output_filename]

\* The download failed at transport level or was answered 4xx or 5xx.
DownloadFailed ==
    /\ last_resp.kind = "download"
    /\ last_resp.net = "connerr" \/ last_resp.code \in {"4xx", "5xx"}

\* C19 as amended: when a run fails at any step up to and including a
\* download that fails at transport level or is answered 4xx or 5xx, the file
\* at the output path is as it was before the run; the path is opened for
\* writing only after raise_for_status has accepted the download response
\* (any status but 4xx and 5xx, so also an unfollowed 3xx).
C19_FailedRunKeepsFile ==
    /\ pc = "exit" => Untouched(call) /\ Count("open") = 0
    /\ DownloadFailed =>
          /\ pc = "exit"
          /\ sent.call = call
          /\ \E f \in InitialFiles : CurrentFile = f[reqs[call].output_filename]
    /\ pc \in {"query", "sleep", "submit_bg", "download", "open"} => Untouched(call)
    /\ Count("open") > 0 => DownloadPassed

C19_Witness ==
    /\ DownloadFailed
    /\ last_resp.code = "5xx"
    /\ pc = "exit"
    /\ call = 1
    /\ CurrentFile = [exists |-> TRUE, data |-> OldData]

\* The output files of the first n requests, in the order of the list.
FirstPaths(n) == [i \in 1..n |-> reqs[i].output_filename]

\* C20: the driver writes the output files in the order of its list of
\* requests, and in every reachable state the files written by this process
\* are those of a prefix of the list: file i is written only after files
\* 1..i-1 were written, and the files of the later requests are untouched.
C20_WrittenIsPrefix ==
    /\ Len(written) <= Len(reqs)
    /\ written = FirstPaths(Len(written))
    /\ \A i \in DOMAIN reqs :
          /\ i <= Len(written) =>
                /\ returned[i].call = i
                /\ files[reqs[i].output_filename] = [exists |-> TRUE, data |-> returned[i].data]
          /\ (i > Len(written) /\ ~(i = call /\ pc = "write")) => Untouched(i)

C20_Witness ==
    /\ pc = "exit"
    /\ call = 4
    /\ written = <<"male_warrior_scenario.png", "female_archer_scenario.png",
                   "goblin_rogue_scenario.png">>
    /\ files["wizard_scenario.png"] = Absent
    /\ files["goblin_rogue_scenario.png"].data = <<80, 78, 71>>

====
